---- MODULE Spec2Model ----
(***************************************************************************)
(* Model of the attachment / memory pipeline of the chatbot:               *)
(*   - the Memory store accessors of lib/db/memory.ts (saveMemory,         *)
(*     getMemoriesByUserId) running as concurrent request handlers         *)
(*     against one "Memory" table;                                         *)
(*   - the turn pipeline: upload route, submitForm, the chat route's       *)
(*     two conversions around convertToModelMessages.                      *)
(***************************************************************************)
EXTENDS Integers, Sequences, FiniteSets

\* ------------------------------------------------------------------------
\* Bounds of the model
\* ------------------------------------------------------------------------
\* calls a behaviour of SpecSave may start
MaxSaveCalls == 4
\* calls a behaviour of SpecLoad may start
MaxLoadCalls == 3

\* concurrent request handlers
Procs == {"p1", "p2"}

\* null / undefined for string-valued fields
None == "none"
\* undefined for an optional number (importance, limit, minImportance)
Absent == 0 - 1

\* ------------------------------------------------------------------------
\* text columns: importance and accessCount are stored as text
\* (a text is a sequence of character codes, "0" = 48)
\* ------------------------------------------------------------------------
RECURSIVE NumToText(_)
\* Number.prototype.toString / integer-to-text assignment, n >= 0
NumToText(n) ==
  IF n < 10 THEN <<48 + n>> ELSE NumToText(n \div 10) \o <<48 + (n % 10)>>

RECURSIVE CastInteger(_)
\* CAST(text AS INTEGER) of a digit string
CastInteger(t) ==
  IF Len(t) = 0 THEN 0
  ELSE 10 * CastInteger(SubSeq(t, 1, Len(t) - 1)) + (t[Len(t)] - 48)

RECURSIVE TextLess(_, _)
\* a < b in the ordering of text values (character by character)
TextLess(a, b) ==
  IF Len(b) = 0 THEN FALSE
  ELSE IF Len(a) = 0 THEN TRUE
  ELSE IF a[1] # b[1] THEN a[1] < b[1]
  ELSE TextLess(Tail(a), Tail(b))

\* ------------------------------------------------------------------------
\* State
\* ------------------------------------------------------------------------
VARIABLES
  store,       \* rows of table "Memory"
  nextId,      \* gen_random_uuid(): ids handed out so far
  clock,       \* new Date(): a logical time that every reading advances
  pc,          \* per handler: the statement it awaits next
  call,        \* per handler: the parameters of the call it runs
  existing,    \* per handler: saveMemory's `existing`
  results,     \* per handler: getMemoriesByUserId's `results`
  callsLeft,   \* calls the behaviour may still start
  prov,        \* history: per row id, who wrote it last
  solo,        \* history: per handler, its call overlapped no other call
  soloHist,    \* history: the latest calls that ran one after the other
  hits,        \* history: per row id, the calls that returned or updated it
  files,       \* the files the user picked for the turn, in order
  input,       \* the text the user typed
  responses,   \* per picked file: what uploadFile resolved to
  uploadsDir,  \* public/uploads: the file paths written
  attachments, \* multimodal-input's `attachments` state
  phase,       \* where the turn is
  message,     \* body of POST /api/chat: message.parts
  chat,        \* what the chat route made of the message
  fn,          \* the function a direct call runs
  arg,         \* the argument of the direct call
  ret,         \* what the direct call returned
  loop         \* extractMemoriesFromConversation: its loop over the patterns

memVars ==
  <<store, nextId, clock, pc, call, existing, results, callsLeft, prov, solo,
    soloHist, hits>>

turnVars ==
  <<files, input, responses, uploadsDir, attachments, phase, message, chat>>

callVars == <<fn, arg, ret, loop>>

vars == <<memVars, turnVars, callVars>>

\* ------------------------------------------------------------------------
\* lib/db/memory.ts
\* ------------------------------------------------------------------------
\* `importance = 5` in saveMemory's destructuring
DefaultImportance == 5
\* `options?.limit || 50`
DefaultLimit == 50

\* the shape of call[p]; a field a call does not pass is None / Absent
NoCall ==
  [op |-> "idle", userId |-> None, chatId |-> None, category |-> None,
   key |-> None, value |-> None, importance |-> Absent, metadata |-> None,
   minImportance |-> Absent, limit |-> Absent, now |-> 0, id |-> Absent]

\* saveMemory(params: CreateMemoryParams)
SaveCall(u, c, cat, k, v, imp, m) ==
  [NoCall EXCEPT !.op = "save", !.userId = u, !.chatId = c, !.category = cat,
                 !.key = k, !.value = v, !.importance = imp, !.metadata = m]

\* getMemoriesByUserId(userId, {category, limit, minImportance})
GetCall(u, cat, lim, minImp) ==
  [NoCall EXCEPT !.op = "get", !.userId = u, !.category = cat, !.limit = lim,
                 !.minImportance = minImp]

\* getMemoryByKey(userId, key)
KeyCall(u, k) == [NoCall EXCEPT !.op = "key", !.userId = u, !.key = k]

\* deleteMemory(id, userId)
DeleteCall(id, u) == [NoCall EXCEPT !.op = "delete", !.id = id, !.userId = u]

\* deleteAllMemories(userId)
DeleteAllCall(u) == [NoCall EXCEPT !.op = "deleteAll", !.userId = u]

\* importance after the destructuring default
ImportanceOf(c) ==
  IF c.importance = Absent THEN DefaultImportance ELSE c.importance

\* the rows `existing` may hold: .where(userId, key).limit(1), no ORDER BY
SelectByKey(rows, userId, key) ==
  LET match == {r \in rows : r.userId = userId /\ r.key = key}
  IN  IF match = {} THEN {<<>>} ELSE {<<r>> : r \in match}

\* UpdateSet with the category of the call written as well
UpdateSetWritesCategory(r, c) ==
  [r EXCEPT !.value = c.value,
            !.category = c.category,
            !.importance = NumToText(ImportanceOf(c)),
            !.updatedAt = c.now,
            !.lastAccessedAt = c.now,
            !.accessCount = NumToText(CastInteger(r.accessCount) + 1),
            !.metadata = IF c.metadata # None THEN c.metadata ELSE r.metadata,
            !.chatId = IF c.chatId # None THEN c.chatId ELSE r.chatId]

\* UpdateSet with importance left out of .set({...})
UpdateSetKeepsImportance(r, c) ==
  [r EXCEPT !.value = c.value,
            !.updatedAt = c.now,
            !.lastAccessedAt = c.now,
            !.accessCount = NumToText(CastInteger(r.accessCount) + 1),
            !.metadata = IF c.metadata # None THEN c.metadata ELSE r.metadata,
            !.chatId = IF c.chatId # None THEN c.chatId ELSE r.chatId]

\* .set({...}) of the update: undefined members (metadata, and chatId by the
\* conditional spread) leave their column as it is
UpdateSet(r, c) ==
  [r EXCEPT !.value = c.value,
            !.importance = NumToText(ImportanceOf(c)),
            !.updatedAt = c.now,
            !.lastAccessedAt = c.now,
            !.accessCount = NumToText(CastInteger(r.accessCount) + 1),
            !.metadata = IF c.metadata # None THEN c.metadata ELSE r.metadata,
            !.chatId = IF c.chatId # None THEN c.chatId ELSE r.chatId]

\* .values({...}) of the insert
InsertValues(c, id) ==
  [id |-> id, userId |-> c.userId, chatId |-> c.chatId,
   category |-> c.category, key |-> c.key, value |-> c.value,
   importance |-> NumToText(ImportanceOf(c)),
   createdAt |-> c.now, updatedAt |-> c.now, lastAccessedAt |-> c.now,
   accessCount |-> NumToText(1), metadata |-> c.metadata]

\* the table after saveMemory's second statement
SaveWrite(rows, ex, c, id) ==
  IF Len(ex) > 0
  THEN {IF r.id = ex[1].id THEN UpdateSet(r, c) ELSE r : r \in rows}
  ELSE rows \cup {InsertValues(c, id)}

\* the WHERE of getMemoriesByUserId: and(...conditions)
Conditions(r, c) ==
  /\ r.userId = c.userId
  /\ (c.category # None => r.category = c.category)
  /\ ((c.minImportance # Absent /\ c.minImportance # 0)
        => CastInteger(r.importance) >= c.minImportance)

\* a is placed before b by .orderBy(desc(importance), desc(updatedAt));
\* importance is a text column, so desc() compares text
OrderBefore(a, b) ==
  \/ TextLess(b.importance, a.importance)
  \/ a.importance = b.importance /\ a.updatedAt > b.updatedAt

\* .limit(options?.limit || 50)
LimitOf(c) ==
  IF c.limit = Absent \/ c.limit = 0 THEN DefaultLimit ELSE c.limit

RECURSIVE SeqsOf(_)
\* every arrangement of the rows of S
SeqsOf(S) ==
  IF S = {} THEN {<<>>}
  ELSE UNION {{<<x>> \o s : s \in SeqsOf(S \ {x})} : x \in S}

\* the arrays the select of getMemoriesByUserId may return
SelectMemories(rows, c) ==
  LET match == {r \in rows : Conditions(r, c)}
      sorted == {s \in SeqsOf(match) :
                   \A i, j \in 1..Len(s) : i < j => ~OrderBefore(s[j], s[i])}
      n == IF LimitOf(c) < Cardinality(match) THEN LimitOf(c)
           ELSE Cardinality(match)
  IN  {SubSeq(s, 1, n) : s \in sorted}

\* .set({lastAccessedAt, accessCount + 1}) of the access update
BumpAccess(r, now) ==
  [r EXCEPT !.lastAccessedAt = now,
            !.accessCount = NumToText(CastInteger(r.accessCount) + 1)]

\* TouchResults writing the count read by the select, plus one
TouchFromSnapshot(rows, res, now) ==
  LET ids == {res[i].id : i \in 1..Len(res)}
      read(id) == CHOOSE m \in {res[i] : i \in 1..Len(res)} : m.id = id
  IN  {IF r.id \in ids
       THEN [r EXCEPT !.lastAccessedAt = now,
                      !.accessCount =
                        NumToText(CastInteger(read(r.id).accessCount) + 1)]
       ELSE r : r \in rows}

\* TouchResults with the WHERE of the access update left out
TouchAllRows(rows, res, now) == {BumpAccess(r, now) : r \in rows}

\* the table after the access update: WHERE id = ANY(ids)
TouchResults(rows, res, now) ==
  LET ids == {res[i].id : i \in 1..Len(res)}
  IN  {IF r.id \in ids THEN BumpAccess(r, now) ELSE r : r \in rows}

\* DeleteWhere with the userId test left out of the WHERE
DeleteWhereIdOnly(rows, c) == {r \in rows : r.id # c.id}

\* the table after deleteMemory: WHERE id = $1 AND userId = $2
DeleteWhere(rows, c) == {r \in rows : ~(r.id = c.id /\ r.userId = c.userId)}

\* the table after deleteAllMemories: WHERE userId = $1
DeleteAllWhere(rows, c) == {r \in rows : r.userId # c.userId}

\* ------------------------------------------------------------------------
\* history kept for the properties (not program state)
\* ------------------------------------------------------------------------
InFlight(p) == pc[p] # "idle"

SameKey(c, d) == c.userId = d.userId /\ c.key = d.key

\* how the call p starts overlaps the calls in flight
OverlapAtStart(p, c) ==
  IF \E q \in Procs \ {p} :
       InFlight(q) /\ call[q].op = "save" /\ c.op = "save" /\ SameKey(c, call[q])
  THEN "samekey"
  ELSE IF \E q \in Procs \ {p} : InFlight(q) THEN "other" ELSE "none"

\* the calls in flight learn of the call p starts
OverlapOthers(p, c) ==
  [q \in Procs |->
     IF q = p THEN OverlapAtStart(p, c)
     ELSE IF ~InFlight(q) THEN solo[q]
     ELSE IF solo[q] = "samekey" THEN "samekey"
     ELSE IF call[q].op = "save" /\ c.op = "save" /\ SameKey(c, call[q])
          THEN "samekey" ELSE "other"]

\* the latest two calls that ran alone, one after the other
NoteDone(p) ==
  IF solo[p] = "none"
  THEN IF Len(soloHist) = 0 THEN <<call[p]>>
       ELSE <<soloHist[Len(soloHist)], call[p]>>
  ELSE <<>>

\* the calls that returned or updated the row id, so far
HitsOf(id) == IF id \in DOMAIN hits THEN hits[id] ELSE 0

\* a call that returned or updated the rows `ids` has completed
Hit(ids) ==
  [i \in DOMAIN hits \cup ids |-> IF i \in ids THEN HitsOf(i) + 1 ELSE hits[i]]

\* the calls in flight learn of a call that starts and completes at once
OverlapAtOnce ==
  [q \in Procs |->
     IF InFlight(q) /\ solo[q] = "none" THEN "other" ELSE solo[q]]

\* who wrote the row last, and the last chatId / metadata any writer passed
NoteWrite(ex, c, id, raced) ==
  IF Len(ex) > 0
  THEN {IF w.id = ex[1].id
        THEN [w EXCEPT !.writer = c, !.raced = raced,
                       !.chat = IF c.chatId # None THEN c.chatId ELSE w.chat,
                       !.meta = IF c.metadata # None THEN c.metadata ELSE w.meta]
        ELSE w : w \in prov}
  ELSE prov \cup {[id |-> id, writer |-> c, raced |-> raced,
                   chat |-> c.chatId, meta |-> c.metadata]}

\* ------------------------------------------------------------------------
\* Actions: one per awaited statement of a handler
\* ------------------------------------------------------------------------
MemInit(n) ==
  /\ store = {}
  /\ nextId = 1
  /\ clock = 1
  /\ pc = [p \in Procs |-> "idle"]
  /\ call = [p \in Procs |-> NoCall]
  /\ existing = [p \in Procs |-> <<>>]
  /\ results = [p \in Procs |-> <<>>]
  /\ callsLeft = n
  /\ prov = {}
  /\ solo = [p \in Procs |-> "none"]
  /\ soloHist = <<>>
  /\ hits = <<>>

\* saveMemory up to its first await: now = new Date(); existing = select
saveMemory_select(p, c) ==
  /\ pc[p] = "idle"
  /\ callsLeft > 0
  /\ callsLeft' = callsLeft - 1
  /\ call' = [call EXCEPT ![p] = [c EXCEPT !.now = clock]]
  /\ clock' = clock + 1
  /\ \E ex \in SelectByKey(store, c.userId, c.key) :
       existing' = [existing EXCEPT ![p] = ex]
  /\ pc' = [pc EXCEPT ![p] = "save_write"]
  /\ solo' = OverlapOthers(p, c)
  /\ UNCHANGED <<store, nextId, results, prov, soloHist, hits>>
  /\ UNCHANGED <<turnVars, callVars>>

\* saveMemory's second statement (update ... returning / insert ... returning)
saveMemory_write(p) ==
  /\ pc[p] = "save_write"
  /\ store' = SaveWrite(store, existing[p], call[p], nextId)
  /\ nextId' = IF Len(existing[p]) > 0 THEN nextId ELSE nextId + 1
  /\ prov' = NoteWrite(existing[p], call[p], nextId, solo[p] = "samekey")
  /\ soloHist' = NoteDone(p)
  /\ hits' = IF Len(existing[p]) > 0 THEN Hit({existing[p][1].id}) ELSE hits
  /\ pc' = [pc EXCEPT ![p] = "idle"]
  /\ existing' = [existing EXCEPT ![p] = <<>>]
  /\ UNCHANGED <<clock, call, results, callsLeft, solo>>
  /\ UNCHANGED <<turnVars, callVars>>

\* getMemoriesByUserId up to its first await: results = select
getMemoriesByUserId_select(p, c) ==
  /\ pc[p] = "idle"
  /\ callsLeft > 0
  /\ callsLeft' = callsLeft - 1
  /\ call' = [call EXCEPT ![p] = c]
  /\ \E res \in SelectMemories(store, c) :
       results' = [results EXCEPT ![p] = res]
  /\ pc' = [pc EXCEPT ![p] = "get_update"]
  /\ solo' = OverlapOthers(p, c)
  /\ UNCHANGED <<store, nextId, clock, existing, prov, soloHist, hits>>
  /\ UNCHANGED <<turnVars, callVars>>

\* the access update (skipped when results is empty), then return results
getMemoriesByUserId_update(p) ==
  /\ pc[p] = "get_update"
  /\ IF Len(results[p]) > 0
     THEN /\ store' = TouchResults(store, results[p], clock)
          /\ clock' = clock + 1
     ELSE UNCHANGED <<store, clock>>
  /\ hits' = Hit({results[p][i].id : i \in 1..Len(results[p])})
  /\ soloHist' = NoteDone(p)
  /\ pc' = [pc EXCEPT ![p] = "idle"]
  /\ UNCHANGED <<nextId, call, existing, results, callsLeft, prov, solo>>
  /\ UNCHANGED <<turnVars, callVars>>

\* getMemoryByKey up to its first await: results = select ... limit(1)
getMemoryByKey_select(p, c) ==
  /\ pc[p] = "idle"
  /\ callsLeft > 0
  /\ callsLeft' = callsLeft - 1
  /\ call' = [call EXCEPT ![p] = c]
  /\ \E res \in SelectByKey(store, c.userId, c.key) :
       results' = [results EXCEPT ![p] = res]
  /\ pc' = [pc EXCEPT ![p] = "key_update"]
  /\ solo' = OverlapOthers(p, c)
  /\ UNCHANGED <<store, nextId, clock, existing, prov, soloHist, hits>>
  /\ UNCHANGED <<turnVars, callVars>>

\* `return null` when nothing was found; else the access update WHERE
\* id = results[0].id, then return results[0]
getMemoryByKey_update(p) ==
  /\ pc[p] = "key_update"
  /\ IF Len(results[p]) = 0
     THEN UNCHANGED <<store, clock, hits>>
     ELSE /\ store' = TouchResults(store, results[p], clock)
          /\ clock' = clock + 1
          /\ hits' = Hit({results[p][1].id})
  /\ soloHist' = NoteDone(p)
  /\ pc' = [pc EXCEPT ![p] = "idle"]
  /\ UNCHANGED <<nextId, call, existing, results, callsLeft, prov, solo>>
  /\ UNCHANGED <<turnVars, callVars>>

\* deleteMemory: one delete statement
deleteMemory(p, c) ==
  /\ pc[p] = "idle"
  /\ callsLeft > 0
  /\ callsLeft' = callsLeft - 1
  /\ call' = [call EXCEPT ![p] = c]
  /\ store' = DeleteWhere(store, c)
  /\ solo' = OverlapAtOnce
  /\ soloHist' = <<>>
  /\ UNCHANGED <<nextId, clock, pc, existing, results, prov, hits>>
  /\ UNCHANGED <<turnVars, callVars>>

\* deleteAllMemories: one delete statement
deleteAllMemories(p, c) ==
  /\ pc[p] = "idle"
  /\ callsLeft > 0
  /\ callsLeft' = callsLeft - 1
  /\ call' = [call EXCEPT ![p] = c]
  /\ store' = DeleteAllWhere(store, c)
  /\ solo' = OverlapAtOnce
  /\ soloHist' = <<>>
  /\ UNCHANGED <<nextId, clock, pc, existing, results, prov, hits>>
  /\ UNCHANGED <<turnVars, callVars>>

\* ------------------------------------------------------------------------
\* strings: sequences of characters (or of longer pieces of fixed text)
\* ------------------------------------------------------------------------
\* `undefined` where a string is expected
Undefined == <<"undefined">>

\* a string that is neither undefined nor ""
Truthy(s) == s # Undefined /\ Len(s) > 0

\* s || ""
OrEmpty(s) == IF Truthy(s) THEN s ELSE <<>>

\* String.prototype.startsWith
StartsWith(s, pre) == Len(s) >= Len(pre) /\ SubSeq(s, 1, Len(pre)) = pre

\* String.prototype.includes, for a piece of text that is one element
Includes(s, piece) == \E i \in 1..Len(s) : s[i] = piece

\* String.prototype.slice(0, n)
Slice(s, n) == SubSeq(s, 1, IF Len(s) < n THEN Len(s) ELSE n)

IsSpace(ch) == ch \in {" ", "\n", "\t"}

RECURSIVE TrimStart(_)
TrimStart(s) ==
  IF Len(s) > 0 /\ IsSpace(s[1]) THEN TrimStart(Tail(s)) ELSE s

RECURSIVE TrimEnd(_)
TrimEnd(s) ==
  IF Len(s) > 0 /\ IsSpace(s[Len(s)])
  THEN TrimEnd(SubSeq(s, 1, Len(s) - 1)) ELSE s

\* String.prototype.trim
Trim(s) == TrimEnd(TrimStart(s))

\* ------------------------------------------------------------------------
\* lib/utils/file-parser.ts
\* ------------------------------------------------------------------------
NoTextPlaceholder ==
  <<"[This PDF appears to be empty or contains only images. No text could be extracted.]">>

\* PdfErrorMessage with the test for 'encrypted' made before the others
PdfErrorMessageEncryptedFirst(msg) ==
  IF msg # Undefined /\ Includes(msg, "encrypted")
  THEN <<"PDF is encrypted">>
  ELSE IF msg # Undefined /\ Includes(msg, "Invalid PDF")
  THEN <<"Invalid or corrupted PDF file">>
  ELSE IF msg # Undefined /\ Includes(msg, "password")
  THEN <<"PDF is password-protected">>
  ELSE IF Truthy(msg) THEN <<"PDF parsing error: ">> \o msg
  ELSE <<"Failed to extract text from PDF">>

\* the message of the Error extractTextFromPDF throws for a parser error
PdfErrorMessage(msg) ==
  IF msg # Undefined /\ Includes(msg, "Invalid PDF")
  THEN <<"Invalid or corrupted PDF file">>
  ELSE IF msg # Undefined /\ Includes(msg, "password")
  THEN <<"PDF is password-protected">>
  ELSE IF msg # Undefined /\ Includes(msg, "encrypted")
  THEN <<"PDF is encrypted">>
  ELSE IF Truthy(msg) THEN <<"PDF parsing error: ">> \o msg
  ELSE <<"Failed to extract text from PDF">>

\* extractTextFromPDF with `!fullText` as its only test for no text
extractTextFromPDFNoTrimTest(buffer) ==
  IF buffer.parseOk
  THEN IF ~Truthy(buffer.text)
       THEN [ok |-> TRUE, value |-> NoTextPlaceholder]
       ELSE [ok |-> TRUE, value |-> Trim(buffer.text)]
  ELSE [ok |-> FALSE, value |-> PdfErrorMessage(buffer.message)]

\* extractTextFromPDF(buffer); pdfParse(buffer) either resolves to data
\* (buffer.parseOk, data.text = buffer.text) or throws buffer.message
extractTextFromPDF(buffer) ==
  IF buffer.parseOk
  THEN IF ~Truthy(buffer.text) \/ Len(Trim(buffer.text)) = 0
       THEN [ok |-> TRUE, value |-> NoTextPlaceholder]
       ELSE [ok |-> TRUE, value |-> Trim(buffer.text)]
  ELSE [ok |-> FALSE, value |-> PdfErrorMessage(buffer.message)]

\* extractTextFromTextFile(buffer): buffer.toString('utf-8') puts U+FFFD in
\* the place of a byte that is not UTF-8 and does not throw
extractTextFromTextFile(buffer) ==
  [ok |-> TRUE,
   value |-> [i \in 1..Len(buffer.text) |->
                IF buffer.text[i] = "0xFF" THEN "U+FFFD" ELSE buffer.text[i]]]

\* ------------------------------------------------------------------------
\* app/(chat)/api/files/upload/route.ts
\* ------------------------------------------------------------------------
\* 10 * 1024 * 1024
MaxUploadBytes == 10485760

AllowedTypes == {"application/pdf", "text/plain", "image/png", "image/jpeg"}

\* a picked file: name, declared type, size, and what reading it gives
\* (text: its characters; parseOk / message: what pdf-parse does with it)
File(name, type, size, parseOk, text, msg) ==
  [name |-> name, type |-> type, size |-> size, parseOk |-> parseOk,
   text |-> text, message |-> msg]

\* randomUUID()
Uuid(n) == <<"uuid-1", "uuid-2", "uuid-3", "uuid-4", "uuid-5", "uuid-6">>[n]

\* filename.split('.').pop()
Extension(name) == name[Len(name)]

\* FileSchema without the refinement on file.size
FileSchemaTypeOnly(file) == file.type \in AllowedTypes

\* FileSchema.safeParse({ file })
FileSchemaOk(file) == file.size <= MaxUploadBytes /\ file.type \in AllowedTypes

NoResponse ==
  [status |-> 0, url |-> Undefined, contentType |-> None, name |-> Undefined,
   extractedText |-> Undefined, error |-> Undefined, details |-> Undefined,
   written |-> {}, steps |-> <<>>]

\* the text extraction of the route, by file.type
ExtractByType(file) ==
  IF file.type = "application/pdf" THEN extractTextFromPDF(file)
  ELSE IF file.type = "text/plain" THEN extractTextFromTextFile(file)
  ELSE [ok |-> TRUE, value |-> Undefined]

\* the statements of POST that a request for the file runs, in order
StepsOf(file) ==
  <<"safeParse", "writeFile">>
    \o (IF file.type \in {"application/pdf", "text/plain"}
        THEN <<"extract">> ELSE <<>>)

\* POST: the response, the paths it wrote under public/uploads and the
\* statements it ran
UploadPOST(file, n) ==
  IF ~FileSchemaOk(file)
  THEN [NoResponse EXCEPT !.status = 400,
          !.error = <<"File size should be less than 10MB / File type should be PDF, TXT, PNG, or JPG">>,
          !.steps = <<"safeParse">>]
  ELSE LET path == <<"/uploads/", Uuid(n), ".", Extension(file.name)>>
           ex == ExtractByType(file)
       IN  IF ~ex.ok
           THEN [NoResponse EXCEPT !.status = 500,
                   !.error = IF file.type = "application/pdf"
                             THEN <<"Failed to extract text from PDF">>
                             ELSE <<"Failed to read text file">>,
                   !.details = ex.value, !.written = {path},
                   !.steps = StepsOf(file)]
           ELSE [NoResponse EXCEPT !.status = 200, !.url = path,
                   !.contentType = file.type, !.name = file.name,
                   !.extractedText = ex.value, !.written = {path},
                   !.steps = StepsOf(file)]

\* ------------------------------------------------------------------------
\* components/multimodal-input.tsx
\* ------------------------------------------------------------------------
DataImage == <<"data:image/">>

NoAttachment ==
  [url |-> Undefined, name |-> Undefined, contentType |-> None,
   extractedText |-> Undefined]

IsImageType(t) == t \in {"image/png", "image/jpeg"}

\* fileToBase64DataURL(file): reader.readAsDataURL
fileToBase64DataURL(file) ==
  DataImage \o <<Extension(file.name), ";base64,">> \o file.text

\* what uploadFile(file) resolves to; an image is not sent to the route,
\* any other file is, and gives an attachment only if response.ok
uploadFile(file, n) ==
  IF IsImageType(file.type)
  THEN [att |-> [NoAttachment EXCEPT !.url = fileToBase64DataURL(file),
                   !.name = file.name, !.contentType = file.type],
        written |-> {}]
  ELSE LET r == UploadPOST(file, n)
       IN  [att |-> IF r.status = 200
                    THEN [url |-> r.url, name |-> r.name,
                          contentType |-> r.contentType,
                          extractedText |-> OrEmpty(r.extractedText)]
                    ELSE NoAttachment,
            written |-> r.written]

\* the shape of a message part at every stage
NoPart ==
  [type |-> None, text |-> Undefined, mediaType |-> None, name |-> Undefined,
   url |-> Undefined, extractedText |-> Undefined, data |-> Undefined,
   image |-> Undefined]

TextPart(t) == [NoPart EXCEPT !.type = "text", !.text = t]

FilePart(mediaType, name, url, extractedText) ==
  [NoPart EXCEPT !.type = "file", !.mediaType = mediaType, !.name = name,
                 !.url = url, !.extractedText = extractedText]

\* `[File: ${name}]\n\n${text}`
FileText(name, text) == <<"[File: ">> \o name \o <<"]", "\n", "\n">> \o text

\* .slice(0, 2000) in submitForm
SliceLimit == 2000

\* the part submitForm maps an attachment to
MapAttachment(a) ==
  IF a.contentType \in {"application/pdf", "text/plain"}
  THEN TextPart(FileText(a.name, Slice(OrEmpty(a.extractedText), SliceLimit)))
  ELSE FilePart(a.contentType, a.name, a.url, Undefined)

\* SubmitParts with the typed text put before the mapped attachments
SubmitPartsTextFirst(atts, text) ==
  <<TextPart(OrEmpty(text))>> \o [i \in 1..Len(atts) |-> MapAttachment(atts[i])]

\* sendMessage({ parts: [...mappedParts, { type: "text", text: input || "" }] })
SubmitParts(atts, text) ==
  [i \in 1..Len(atts) |-> MapAttachment(atts[i])] \o <<TextPart(OrEmpty(text))>>

RECURSIVE Defined(_)
\* the attachments among what the uploadFile calls resolved to, in order
Defined(rs) ==
  IF Len(rs) = 0 THEN <<>>
  ELSE (IF rs[1] = NoAttachment THEN <<>> ELSE <<rs[1]>>) \o Defined(Tail(rs))

\* ------------------------------------------------------------------------
\* app/(chat)/api/chat/schema.ts and route.ts
\* ------------------------------------------------------------------------
\* partSchema = z.union([textPartSchema, filePartSchema])
PartSchemaOk(part) ==
  \/ part.type = "text" /\ part.text # Undefined /\ Len(part.text) >= 1
  \/ /\ part.type = "file"
     /\ part.mediaType \in AllowedTypes
     /\ part.name # Undefined /\ Len(part.name) >= 1
     /\ part.url # Undefined

\* first conversion: processedMessageParts = message.parts.map(...)
Stage1(part) ==
  IF part.type = "file" /\ Truthy(part.extractedText)
  THEN TextPart(FileText(part.name, part.extractedText))
  ELSE part

\* convertToModelMessages on one part: text stays text, a file part
\* becomes { type: "file", data: url, mediaType }
ConvertToModel(part) ==
  IF part.type = "file"
  THEN [NoPart EXCEPT !.type = "file", !.data = part.url,
                      !.mediaType = part.mediaType, !.name = part.name]
  ELSE [NoPart EXCEPT !.type = part.type, !.text = part.text]

\* second conversion: processedModelMessages
Stage2(part) ==
  IF part.type = "file" /\ part.data # Undefined /\ StartsWith(part.data, DataImage)
  THEN [NoPart EXCEPT !.type = "image", !.image = part.data]
  ELSE part

NoChat ==
  [state |-> "none", saved |-> <<>>, processedMessageParts |-> <<>>,
   modelMessages |-> <<>>, providerParts |-> <<>>]

\* ChatRoute with the parts of the first conversion given to saveMessages
ChatRouteSavesProcessed(parts) ==
  IF \E i \in 1..Len(parts) : ~PartSchemaOk(parts[i])
  THEN [NoChat EXCEPT !.state = "bad_request"]
  ELSE LET p1 == [i \in 1..Len(parts) |-> Stage1(parts[i])]
           mm == [i \in 1..Len(p1) |-> ConvertToModel(p1[i])]
       IN  [state |-> "submitted", saved |-> p1,
            processedMessageParts |-> p1, modelMessages |-> mm,
            providerParts |-> [i \in 1..Len(mm) |-> Stage2(mm[i])]]

\* POST /api/chat for one user message
ChatRoute(parts) ==
  IF \E i \in 1..Len(parts) : ~PartSchemaOk(parts[i])
  THEN [NoChat EXCEPT !.state = "bad_request"]
  ELSE LET p1 == [i \in 1..Len(parts) |-> Stage1(parts[i])]
           mm == [i \in 1..Len(p1) |-> ConvertToModel(p1[i])]
       IN  [state |-> "submitted", saved |-> parts,
            processedMessageParts |-> p1, modelMessages |-> mm,
            providerParts |-> [i \in 1..Len(mm) |-> Stage2(mm[i])]]

\* ------------------------------------------------------------------------
\* Actions of a turn
\* ------------------------------------------------------------------------
\* no direct call
NoReturn == [done |-> FALSE, ok |-> FALSE, value |-> Undefined]

\* the loop before its first pattern: savedMemories = [], nothing tried
NoLoop ==
  [at |-> 1, savedMemories |-> <<>>, tried |-> <<>>, failed |-> <<>>,
   thrown |-> FALSE]

CallIdle ==
  /\ fn = None
  /\ arg = <<>>
  /\ ret = NoReturn
  /\ loop = NoLoop

TurnIdle ==
  /\ files = <<>>
  /\ input = <<>>
  /\ responses = <<>>
  /\ uploadsDir = {}
  /\ attachments = <<>>
  /\ phase = "none"
  /\ message = <<>>
  /\ chat = NoChat

Pending == [NoAttachment EXCEPT !.contentType = "pending"]

\* one uploadFile(file) promise settles (the uploads run in parallel)
uploadFile_settle(i) ==
  /\ phase = "uploading"
  /\ i \in 1..Len(files)
  /\ responses[i] = Pending
  /\ LET r == uploadFile(files[i], Cardinality(uploadsDir) + 1)
     IN  /\ responses' = [responses EXCEPT ![i] = r.att]
         /\ uploadsDir' = uploadsDir \cup r.written
  /\ UNCHANGED <<files, input, attachments, phase, message, chat>>
  /\ UNCHANGED <<memVars, callVars>>

\* the upload route answers the request for the i-th file posted to it
UploadPOST_handle(i) ==
  /\ phase = "posted"
  /\ i \in 1..Len(files)
  /\ responses[i] = NoResponse
  /\ LET r == UploadPOST(files[i], Cardinality(uploadsDir) + 1)
     IN  /\ responses' = [responses EXCEPT ![i] = r]
         /\ uploadsDir' = uploadsDir \cup r.written
  /\ UNCHANGED <<files, input, attachments, phase, message, chat>>
  /\ UNCHANGED <<memVars, callVars>>

\* handleFileChange once every upload has settled: the attachments are
\* added to the state in the order the files were picked
handleFileChange ==
  /\ phase = "uploading"
  /\ \A i \in 1..Len(files) : responses[i] # Pending
  /\ attachments' = Defined(responses)
  /\ phase' = "ready"
  /\ UNCHANGED <<files, input, responses, uploadsDir, message, chat>>
  /\ UNCHANGED <<memVars, callVars>>

\* submitForm: the user sends the turn
submitForm ==
  /\ phase = "ready"
  /\ message' = SubmitParts(attachments, input)
  /\ phase' = "sent"
  /\ UNCHANGED <<files, input, responses, uploadsDir, attachments, chat>>
  /\ UNCHANGED <<memVars, callVars>>

\* ChatPOST handing a request it rejects back to the client for another try
ChatPOST_retry ==
  /\ phase = "sent"
  /\ chat' = ChatRoute(message)
  /\ phase' = IF ChatRoute(message).state = "submitted" THEN "done" ELSE "ready"
  /\ UNCHANGED <<files, input, responses, uploadsDir, attachments, message>>
  /\ UNCHANGED <<memVars, callVars>>

\* the chat route handles the request
ChatPOST ==
  /\ phase = "sent"
  /\ chat' = ChatRoute(message)
  /\ phase' = "done"
  /\ UNCHANGED <<files, input, responses, uploadsDir, attachments, message>>
  /\ UNCHANGED <<memVars, callVars>>

\* ------------------------------------------------------------------------
\* lib/db/memory.ts: formatMemoriesForContext
\* ------------------------------------------------------------------------
\* mem.category || "context"
CategoryOf(mem) == IF mem.category = None THEN "context" ELSE mem.category

RECURSIVE GroupedKeys(_)
\* the keys of `grouped` in the order Object.entries lists them: the order
\* in which the reduce first met each category
GroupedKeys(memories) ==
  IF memories = <<>> THEN <<>>
  ELSE LET before == GroupedKeys(SubSeq(memories, 1, Len(memories) - 1))
           cat == CategoryOf(memories[Len(memories)])
       IN  IF \E i \in 1..Len(before) : before[i] = cat
           THEN before ELSE Append(before, cat)

\* categoryTitles[category] || category
CategoryTitle(category) ==
  CASE category = "preference" -> "Preferences"
    [] category = "personal" -> "Personal Information"
    [] category = "context" -> "Context & Background"
    [] category = "fact" -> "Known Facts"
    [] OTHER -> category

RECURSIVE FormatItems(_)
\* for (const item of items) formatted += `- ${item.key}: ${item.value}\n`
FormatItems(items) ==
  IF items = <<>> THEN <<>>
  ELSE <<"- ", Head(items).key, ": ", Head(items).value, "\n">>
         \o FormatItems(Tail(items))

RECURSIVE FormatSections(_, _)
\* for (const [category, items] of Object.entries(grouped)) { ... }
FormatSections(keys, memories) ==
  IF keys = <<>> THEN <<>>
  ELSE <<"### ", CategoryTitle(Head(keys)), "\n">>
         \o FormatItems(SelectSeq(memories, LAMBDA m : CategoryOf(m) = Head(keys)))
         \o <<"\n">>
         \o FormatSections(Tail(keys), memories)

\* formatMemoriesForContext(memories)
formatMemoriesForContext(memories) ==
  IF Len(memories) = 0 THEN <<>>
  ELSE Trim(<<"## User Memory\n\n">>
              \o FormatSections(GroupedKeys(memories), memories))

\* a direct call returns
Return(f, value) ==
  /\ fn = f
  /\ ~ret.done
  /\ ret' = [done |-> TRUE, ok |-> value.ok, value |-> value.value]
  /\ UNCHANGED <<fn, arg, loop>>
  /\ UNCHANGED <<memVars, turnVars>>

extractTextFromPDF_call ==
  Return("extractTextFromPDF", extractTextFromPDF(arg))

extractTextFromTextFile_call ==
  Return("extractTextFromTextFile", extractTextFromTextFile(arg))

formatMemoriesForContext_call ==
  Return("formatMemoriesForContext",
         [ok |-> TRUE, value |-> formatMemoriesForContext(arg)])

\* ------------------------------------------------------------------------
\* lib/db/memory.ts: extractMemoriesFromConversation
\* (a message is a sequence of single characters)
\* ------------------------------------------------------------------------
UpperCase ==
  <<"A", "B", "C", "D", "E", "F", "G", "H", "I", "J", "K", "L", "M", "N",
    "O", "P", "Q", "R", "S", "T", "U", "V", "W", "X", "Y", "Z">>

LowerCase ==
  <<"a", "b", "c", "d", "e", "f", "g", "h", "i", "j", "k", "l", "m", "n",
    "o", "p", "q", "r", "s", "t", "u", "v", "w", "x", "y", "z">>

\* the character as the /i flag compares it
Fold(ch) ==
  IF \E k \in 1..26 : UpperCase[k] = ch
  THEN LowerCase[CHOOSE k \in 1..26 : UpperCase[k] = ch]
  ELSE ch

\* \w
IsWordChar(ch) ==
  \/ \E k \in 1..26 : ch = UpperCase[k] \/ ch = LowerCase[k]
  \/ ch \in {"0", "1", "2", "3", "4", "5", "6", "7", "8", "9", "_"}

\* the literal lit matches the text at position i, whatever the case
LiteralAt(text, lit, i) ==
  /\ i + Len(lit) - 1 <= Len(text)
  /\ \A k \in 1..Len(lit) : Fold(text[i + k - 1]) = Fold(lit[k])

RECURSIVE WordRun(_, _)
\* (\w+) from position i: the longest run of word characters
WordRun(text, i) ==
  IF i <= Len(text) /\ IsWordChar(text[i])
  THEN <<text[i]>> \o WordRun(text, i + 1) ELSE <<>>

RECURSIVE LineRun(_, _)
\* (.+) from position i: the characters up to the end of the line
LineRun(text, i) ==
  IF i <= Len(text) /\ text[i] # "\n"
  THEN <<text[i]>> \o LineRun(text, i + 1) ELSE <<>>

\* match[1] of /<lit>(\w+)/i, Undefined when the text has no match
WordRule(text, lit) ==
  LET at == {i \in 1..Len(text) :
               LiteralAt(text, lit, i) /\ WordRun(text, i + Len(lit)) # <<>>}
  IN  IF at = {} THEN Undefined
      ELSE WordRun(text, (CHOOSE i \in at : \A j \in at : i <= j) + Len(lit))

\* match[1] of /<lit>(?:a |an )?(.+)/i, Undefined when the text has no match
LineRule(text, lit) ==
  LET at == {i \in 1..Len(text) :
               LiteralAt(text, lit, i) /\ LineRun(text, i + Len(lit)) # <<>>}
  IN  IF at = {} THEN Undefined
      ELSE LET rest == LineRun(text, (CHOOSE i \in at : \A j \in at : i <= j)
                                       + Len(lit))
           IN  IF LiteralAt(rest, <<"a", " ">>, 1) /\ Len(rest) > 2
               THEN SubSeq(rest, 3, Len(rest))
               ELSE IF LiteralAt(rest, <<"a", "n", " ">>, 1) /\ Len(rest) > 3
               THEN SubSeq(rest, 4, Len(rest))
               ELSE rest

\* const patterns = [...]
Patterns ==
  <<[kind |-> "word", lit |-> <<"m", "y", " ", "n", "a", "m", "e", " ", "i", "s", " ">>, key |-> "name", category |-> "personal"],
    [kind |-> "word", lit |-> <<"I", " ", "l", "i", "v", "e", " ", "i", "n", " ">>, key |-> "location", category |-> "personal"],
    [kind |-> "line", lit |-> <<"I", " ", "w", "o", "r", "k", " ", "a", "s", " ">>, key |-> "job", category |-> "personal"],
    [kind |-> "word", lit |-> <<"I", " ", "p", "r", "e", "f", "e", "r", " ">>, key |-> "preference",
     category |-> "preference"]>>

\* the text the patterns are matched against, with the response added
MatchTextWithResponse(params) ==
  params.userMessage \o <<"\n">> \o params.aiResponse

\* the text the patterns are matched against: params.userMessage
MatchText(params) == params.userMessage

\* match[1] of params.userMessage.match(pattern.regex), Undefined when
\* `match && match[1]` is false
RuleMatch(pattern, params) ==
  IF pattern.kind = "word"
  THEN WordRule(MatchText(params), pattern.lit)
  ELSE LineRule(MatchText(params), pattern.lit)

\* the parameters of the saveMemory call for a pattern that matched
RuleCall(pattern, params) ==
  SaveCall(params.userId, params.chatId, pattern.category, pattern.key,
           RuleMatch(pattern, params), 7, "extractedFrom conversation")

\* a saveMemory that throws, with the exception passed on to the caller
OnSaveErrorRethrow(l) == [l EXCEPT !.thrown = TRUE]

\* catch (error) { console.error(...) }: the loop goes on
OnSaveError(l) == [l EXCEPT !.at = l.at + 1]

\* a new call of extractMemoriesFromConversation(params)
extractMemoriesFromConversation_start(params) ==
  /\ fn = None \/ ret.done
  /\ callsLeft > 0
  /\ callsLeft' = callsLeft - 1
  /\ fn' = "extractMemoriesFromConversation"
  /\ arg' = params
  /\ ret' = NoReturn
  /\ loop' = NoLoop
  /\ UNCHANGED <<store, nextId, clock, pc, call, existing, results, prov, solo,
                 soloHist, hits>>
  /\ UNCHANGED turnVars

\* one turn of the loop over the patterns: the match and, if the pattern
\* matched, the awaited saveMemory, which saves or throws
extractMemoriesFromConversation_step ==
  /\ fn = "extractMemoriesFromConversation"
  /\ ~ret.done
  /\ ~loop.thrown
  /\ loop.at <= Len(Patterns)
  /\ LET pattern == Patterns[loop.at]
     IN  IF RuleMatch(pattern, arg) = Undefined
         THEN /\ loop' = [loop EXCEPT !.at = loop.at + 1]
              /\ UNCHANGED <<store, nextId, clock, hits>>
         ELSE LET c == [RuleCall(pattern, arg) EXCEPT !.now = clock]
                  l == [loop EXCEPT !.tried = Append(loop.tried, c)]
              IN  /\ clock' = clock + 1
                  /\ \/ \E ex \in SelectByKey(store, c.userId, c.key) :
                          LET id == IF Len(ex) > 0 THEN ex[1].id ELSE nextId
                              rows == SaveWrite(store, ex, c, nextId)
                          IN  /\ store' = rows
                              /\ nextId' = IF Len(ex) > 0 THEN nextId
                                           ELSE nextId + 1
                              /\ hits' = IF Len(ex) > 0 THEN Hit({ex[1].id})
                                         ELSE hits
                              /\ loop' =
                                   [l EXCEPT
                                      !.at = loop.at + 1,
                                      !.savedMemories =
                                        Append(loop.savedMemories,
                                               CHOOSE r \in rows : r.id = id)]
                     \/ /\ loop' = OnSaveError(
                                     [l EXCEPT !.failed =
                                        Append(loop.failed, Len(l.tried))])
                        /\ UNCHANGED <<store, nextId, hits>>
  /\ UNCHANGED <<fn, arg, ret>>
  /\ UNCHANGED <<pc, call, existing, results, callsLeft, prov, solo, soloHist>>
  /\ UNCHANGED turnVars

\* return savedMemories, or the exception that left the loop
extractMemoriesFromConversation_return ==
  /\ fn = "extractMemoriesFromConversation"
  /\ ~ret.done
  /\ loop.thrown \/ loop.at > Len(Patterns)
  /\ ret' = [done |-> TRUE, ok |-> ~loop.thrown, value |-> loop.savedMemories]
  /\ UNCHANGED <<fn, arg, loop>>
  /\ UNCHANGED <<memVars, turnVars>>

\* ------------------------------------------------------------------------
\* the chat route with the memory of the user: lib/ai/prompts.ts and the
\* memory loading of app/(chat)/api/chat/route.ts
\* ------------------------------------------------------------------------
\* `${regularPrompt}\n\n${requestPrompt}`
BasePrompt == <<"regularPrompt", "\n\n", "requestPrompt">>

\* systemPrompt({ ..., userMemories })
systemPrompt(userMemories) ==
  IF Truthy(userMemories) THEN BasePrompt \o <<"\n\n">> \o userMemories
  ELSE BasePrompt

\* getMemoriesByUserId(userId, { minImportance: 5, limit: 20 })
MemoryLoad(userId) == GetCall(userId, None, 20, 5)

\* ChatRouteWithMemories with the memory prose put in front of the parts of
\* the user turn
ChatRouteMemoriesInTurn(parts, memories) ==
  LET c == ChatRoute(parts)
      prose == formatMemoriesForContext(memories)
  IN  [state |-> c.state, saved |-> c.saved,
       processedMessageParts |-> c.processedMessageParts,
       modelMessages |-> c.modelMessages,
       providerParts |-> IF c.state = "submitted" /\ Truthy(prose)
                         THEN <<TextPart(prose)>> \o c.providerParts
                         ELSE c.providerParts,
       system |-> systemPrompt(prose)]

\* the route for a user whose loaded memories are `memories`: the system
\* text of streamText and the messages made of the user's parts
ChatRouteWithMemories(parts, memories) ==
  LET c == ChatRoute(parts)
  IN  [state |-> c.state, saved |-> c.saved,
       processedMessageParts |-> c.processedMessageParts,
       modelMessages |-> c.modelMessages,
       providerParts |-> c.providerParts,
       system |-> systemPrompt(formatMemoriesForContext(memories))]

\* the route, once its handler p has loaded the memories of the user
ChatPOST_withMemories(p) ==
  /\ phase = "sent"
  /\ pc[p] = "idle"
  /\ \E u \in {"u1", "u2"} : call[p] = MemoryLoad(u)
  /\ chat' = ChatRouteWithMemories(message, results[p])
  /\ phase' = "done"
  /\ UNCHANGED <<files, input, responses, uploadsDir, attachments, message>>
  /\ UNCHANGED <<memVars, callVars>>

\* ------------------------------------------------------------------------
\* Calls the handlers are given
\* ------------------------------------------------------------------------
\* SpecSave: writers of one key, with and without chatId / metadata
SaveRaceCalls ==
  {SaveCall("u1", "c1", "personal", "name", "Alice", 7, "m1"),
   SaveCall("u1", None, "fact", "name", "Bob", 9, None),
   SaveCall("u1", "c2", "personal", "name", "Bob", Absent, "m2"),
   SaveCall("u2", "c1", "personal", "name", "Carol", 7, None),
   SaveCall("u1", None, "personal", "location", "Tokyo", 10, "m1")}

\* SpecLoad: rows of importance 9 and 10, equal importances, another user
SaveLoadCalls ==
  {SaveCall("u1", None, "personal", "name", "Alice", 9, None),
   SaveCall("u1", None, "personal", "location", "Tokyo", 10, None),
   SaveCall("u1", None, "fact", "job", "Nurse", 9, None),
   SaveCall("u1", None, "fact", "job", "Nurse", 3, None),
   SaveCall("u2", None, "personal", "name", "Carol", 10, None)}

GetCalls ==
  {GetCall("u1", None, 1, 5),
   GetCall("u1", None, 2, 9),
   GetCall("u1", None, 20, 10),
   GetCall("u1", None, 0, 5),
   GetCall("u1", "fact", Absent, Absent),
   GetCall("u2", None, 1, Absent)}

\* ------------------------------------------------------------------------
\* Specifications
\* ------------------------------------------------------------------------
InitSave == MemInit(MaxSaveCalls) /\ TurnIdle /\ CallIdle

NextSave ==
  \/ \E p \in Procs, c \in SaveRaceCalls : saveMemory_select(p, c)
  \/ \E p \in Procs : saveMemory_write(p)

\* concurrent saveMemory calls
SpecSave == InitSave /\ [][NextSave]_vars

InitLoad == MemInit(MaxLoadCalls) /\ TurnIdle /\ CallIdle

NextLoad ==
  \/ \E p \in Procs, c \in SaveLoadCalls : saveMemory_select(p, c)
  \/ \E p \in Procs : saveMemory_write(p)
  \/ \E p \in Procs, c \in GetCalls : getMemoriesByUserId_select(p, c)
  \/ \E p \in Procs : getMemoriesByUserId_update(p)

\* saveMemory and getMemoriesByUserId calls, concurrent
SpecLoad == InitLoad /\ [][NextLoad]_vars

\* ------------------------------------------------------------------------
\* Turns
\* ------------------------------------------------------------------------
\* files a turn may carry
MaxFiles == 2
\* parts a request to the chat route may carry
MaxParts == 2

PickedFiles ==
  {File(<<"a", "pdf">>, "application/pdf", 100, TRUE, <<"h", "i">>, Undefined),
   File(<<"b", "pdf">>, "application/pdf", 100, TRUE, <<" ">>, Undefined),
   File(<<"c", "pdf">>, "application/pdf", 100, FALSE, Undefined,
        <<"No ", "password", " given">>),
   File(<<"d", "txt">>, "text/plain", 100, TRUE, <<"y", "o">>, Undefined),
   File(<<"e", "png">>, "image/png", 100, TRUE, <<"QUJD">>, Undefined),
   File(<<"l", "txt">>, "text/plain", 3000, TRUE,
        [i \in 1..SliceLimit + 1 |-> "x"], Undefined)}

TypedInputs == {<<>>, <<"w", "h", "y", "?">>}

RECURSIVE SeqsUpTo(_, _)
\* the sequences over S of length at most n
SeqsUpTo(S, n) ==
  IF n = 0 THEN {<<>>}
  ELSE SeqsUpTo(S, n - 1) \cup
       {Append(s, x) : s \in {t \in SeqsUpTo(S, n - 1) : Len(t) = n - 1}, x \in S}

InitTurn ==
  /\ MemInit(0)
  /\ CallIdle
  /\ files \in SeqsUpTo(PickedFiles, MaxFiles)
  /\ input \in TypedInputs
  /\ responses = [i \in 1..Len(files) |-> Pending]
  /\ uploadsDir = {}
  /\ attachments = <<>>
  /\ phase = "uploading"
  /\ message = <<>>
  /\ chat = NoChat

NextTurn ==
  \/ \E i \in 1..Len(files) : uploadFile_settle(i)
  \/ handleFileChange
  \/ submitForm
  \/ ChatPOST

\* a turn from the picking of its files to the chat route
SpecTurn == InitTurn /\ [][NextTurn]_vars

\* parts a client may put in message.parts
RequestParts ==
  {TextPart(<<"w", "h", "y", "?">>),
   TextPart(<<>>),
   FilePart("application/pdf", <<"a", "pdf">>, <<"/uploads/", "uuid-1", ".", "pdf">>,
            <<"h", "i">>),
   FilePart("application/pdf", <<"b", "pdf">>, <<"/uploads/", "uuid-2", ".", "pdf">>,
            <<>>),
   FilePart("text/plain", <<"d", "txt">>, <<"/uploads/", "uuid-3", ".", "txt">>,
            Undefined),
   FilePart("image/png", <<"e", "png">>, DataImage \o <<"png", ";base64,", "QUJD">>,
            Undefined),
   FilePart("image/jpeg", <<"f", "jpg">>, <<"/uploads/", "uuid-4", ".", "jpg">>,
            Undefined)}

InitChat ==
  /\ MemInit(0)
  /\ CallIdle
  /\ files = <<>>
  /\ input = <<>>
  /\ responses = <<>>
  /\ uploadsDir = {}
  /\ attachments = <<>>
  /\ phase = "sent"
  /\ message \in SeqsUpTo(RequestParts, MaxParts)
  /\ chat = NoChat

NextChat == ChatPOST

\* the chat route on any request its schema admits or refuses
SpecChat == InitChat /\ [][NextChat]_vars

\* ------------------------------------------------------------------------
\* Properties
\* ------------------------------------------------------------------------
AllIdle == \A p \in Procs : pc[p] = "idle"

\* the part is an image carried inline, as a data: URI
IsInlineImage(part) ==
  part.type = "image" /\ part.image # Undefined /\ StartsWith(part.image, DataImage)

\* C1: every part of a submitted turn that is handed to the provider is a
\* text part or an inline image; no file part is forwarded
C1_OnlyTextOrInlineImage ==
  chat.state = "submitted" =>
    \A i \in 1..Len(chat.providerParts) :
      chat.providerParts[i].type = "text" \/ IsInlineImage(chat.providerParts[i])

\* C2: the store never holds two records with the same userId and key
C2_OneRecordPerUserKey ==
  \A r1, r2 \in store : SameKey(r1, r2) => r1 = r2

\* extraction of the picked file fails in the upload route
ExtractionFails(f) == FileSchemaOk(f) /\ ~ExtractByType(f).ok

\* C3: when the extraction of a file of the turn fails, the turn is not
\* submitted and no provider message sequence is produced
C3_FailedExtractionRejectsTurn ==
  (\E i \in 1..Len(files) : ExtractionFails(files[i])) =>
    chat.state # "submitted" /\ chat.providerParts = <<>>

\* the files of the turn that give an attachment, in the order picked
Attached(fs) ==
  SelectSeq(fs, LAMBDA f : IsImageType(f.type) \/ (FileSchemaOk(f) /\ ExtractByType(f).ok))

\* the part carries the file f
PartOf(part, f) ==
  IF IsImageType(f.type)
  THEN part.type = "file" /\ part.name = f.name
  ELSE part.type = "text" /\ StartsWith(part.text, <<"[File: ">> \o f.name)

IsReferencedImage(part) ==
  part.type = "file" /\ IsImageType(part.mediaType)
    /\ ~StartsWith(part.data, DataImage)

\* C5: an image that reaches the second conversion by reference is made an
\* inline image or fails the turn with MissingInlineImageData
C5_ReferencedImageNeverSubmitted ==
  \A i \in 1..Len(chat.modelMessages) :
    IsReferencedImage(chat.modelMessages[i]) =>
      \/ chat.state = "MissingInlineImageData"
      \/ IsInlineImage(chat.providerParts[i])

\* the two calls were given the same parameters
SameParams(c, d) == [c EXCEPT !.now = 0] = [d EXCEPT !.now = 0]

\* C6: after two saveMemory calls with the same parameters, one after the
\* other, there is exactly one record of that userId and key, and it holds
\* that value and importance
C6_SaveTwiceLeavesOneRecord ==
  (AllIdle /\ Len(soloHist) = 2 /\ soloHist[2].op = "save"
     /\ SameParams(soloHist[1], soloHist[2])) =>
    LET c == soloHist[2]
        m == {r \in store : SameKey(r, c)}
    IN  /\ Cardinality(m) = 1
        /\ \A r \in m : r.value = c.value
                          /\ CastInteger(r.importance) = ImportanceOf(c)

\* the record the history entry w is about
RowOf(w) == {r \in store : r.id = w.id}

\* C7 as first stated: after concurrent saveMemory calls on one key, value,
\* importance, chatId and metadata of the record are all the last writer's
C7_AllFieldsFromLastWriter ==
  AllIdle =>
    \A w \in prov : w.raced =>
      \A r \in RowOf(w) :
        /\ r.value = w.writer.value
        /\ r.importance = NumToText(ImportanceOf(w.writer))
        /\ r.chatId = w.writer.chatId
        /\ r.metadata = w.writer.metadata

\* C7: after concurrent saveMemory calls on one key, value and importance
\* of the record are the last writer's; chatId and metadata are those of
\* the last writer that passed one
C7_FieldsFromLastWriterThatPassedThem ==
  AllIdle =>
    \A w \in prov : w.raced =>
      \A r \in RowOf(w) :
        /\ r.value = w.writer.value
        /\ r.importance = NumToText(ImportanceOf(w.writer))
        /\ r.chatId = w.chat
        /\ r.metadata = w.meta

\* a record two concurrent calls updated: the last writer passed neither
\* chatId nor metadata and the record keeps the other call's
C7_Witness ==
  /\ AllIdle
  /\ \E w \in prov : \E r \in RowOf(w) :
       /\ w.raced
       /\ CastInteger(r.accessCount) >= 3
       /\ w.writer.chatId = None /\ r.chatId # None
       /\ w.writer.metadata = None /\ r.metadata # None
       /\ r.value = w.writer.value

\* C8: getMemoriesByUserId returns at most `limit` records, all of userId
\* and of importance at least minImportance
C8_AtMostLimitOfUserAndImportance ==
  \A p \in Procs : pc[p] = "get_update" =>
    /\ call[p].limit # Absent => Len(results[p]) <= call[p].limit
    /\ \A i \in 1..Len(results[p]) :
         /\ results[p][i].userId = call[p].userId
         /\ call[p].minImportance # Absent =>
              CastInteger(results[p][i].importance) >= call[p].minImportance

\* a precedes b when importance is compared as an integer, descending,
\* and ties go to the most recently updated
IntegerBefore(a, b) ==
  \/ CastInteger(a.importance) > CastInteger(b.importance)
  \/ CastInteger(a.importance) = CastInteger(b.importance)
       /\ a.updatedAt > b.updatedAt

\* the records of the call's user of at least its minImportance
Qualifying(rows, c) ==
  {r \in rows :
     /\ r.userId = c.userId
     /\ (c.category # None => r.category = c.category)
     /\ (c.minImportance # Absent => CastInteger(r.importance) >= c.minImportance)}

\* C9: a load with a limit of at least 1 returns the first `limit` of the
\* qualifying records in the order of importance as an integer, descending,
\* then most recently updated first
C9_FirstLimitByIntegerImportance ==
  [][\A p \in Procs :
       (pc[p] = "idle" /\ pc'[p] = "get_update" /\ call'[p].limit >= 1) =>
         LET res == results'[p]
             q == Qualifying(store, call'[p])
             got == {res[i] : i \in 1..Len(res)}
         IN  /\ got \subseteq q
             /\ Len(res) = IF call'[p].limit < Cardinality(q)
                           THEN call'[p].limit ELSE Cardinality(q)
             /\ \A i, j \in 1..Len(res) : i < j => ~IntegerBefore(res[j], res[i])
             /\ \A r \in q \ got : \A i \in 1..Len(res) : ~IntegerBefore(r, res[i])
    ]_vars

\* C10: the access update of one getMemoriesByUserId call adds exactly 1 to
\* the accessCount of each record the call returns and leaves the
\* accessCount of every other record as it was
C10_OneIncrementPerReturnedRecord ==
  [][\A p \in Procs :
       (pc[p] = "get_update" /\ pc'[p] = "idle") =>
         LET ids == {results[p][i].id : i \in 1..Len(results[p])}
         IN  /\ {r.id : r \in store'} = {r.id : r \in store}
             /\ \A r \in store : \A r2 \in store' : r2.id = r.id =>
                  CastInteger(r2.accessCount) =
                    CastInteger(r.accessCount) + (IF r.id \in ids THEN 1 ELSE 0)
    ]_vars

\* a call returned one record of two of its user and has completed: the
\* returned one was counted once more, the other not
C10_Witness ==
  \E p \in Procs :
    /\ pc[p] = "idle" /\ call[p].op = "get" /\ Len(results[p]) = 1
    /\ \E r1, r2 \in store :
         /\ r1.id = results[p][1].id
         /\ CastInteger(r1.accessCount) = CastInteger(results[p][1].accessCount) + 1
         /\ r2.id # r1.id /\ r2.userId = r1.userId
         /\ CastInteger(r2.accessCount) = 1

\* ------------------------------------------------------------------------
\* SpecFormat: formatMemoriesForContext called on a list of records
\* ------------------------------------------------------------------------
\* records a list given to formatMemoriesForContext may hold
MaxMemories == 3

\* a Memory row as formatMemoriesForContext reads it
FormatRecords ==
  {[category |-> "personal", key |-> "name", value |-> "Alice"],
   [category |-> "fact", key |-> "job", value |-> "Nurse"],
   [category |-> "preference", key |-> "preference", value |-> "tea"],
   [category |-> "context", key |-> "project", value |-> "thesis"],
   [category |-> None, key |-> "note", value |-> "x"]}

InitFormat ==
  /\ MemInit(0)
  /\ TurnIdle
  /\ fn = "formatMemoriesForContext"
  /\ arg \in SeqsUpTo(FormatRecords, MaxMemories)
  /\ ret = NoReturn
  /\ loop = NoLoop

NextFormat == formatMemoriesForContext_call

SpecFormat == InitFormat /\ [][NextFormat]_vars

\* the section titles of a formatted context, in the order they appear
Headings(out) ==
  LET at == SelectSeq([i \in 1..Len(out) |-> i],
                      LAMBDA i : out[i] = "### " /\ i < Len(out))
  IN  [k \in 1..Len(at) |-> out[at[k] + 1]]

\* the place of a section title in the order personal, preference,
\* context, fact
TitleRank(t) ==
  CASE t = "Personal Information" -> 1
    [] t = "Preferences" -> 2
    [] t = "Context & Background" -> 3
    [] t = "Known Facts" -> 4
    [] OTHER -> 5

\* C11: the sections of the formatted context appear in the order
\* personal, preference, context, fact, whatever the order of the records
C11_SectionsInFixedOrder ==
  (fn = "formatMemoriesForContext" /\ ret.done) =>
    LET h == Headings(ret.value)
    IN  \A i, j \in 1..Len(h) : i < j => TitleRank(h[i]) < TitleRank(h[j])

\* ------------------------------------------------------------------------
\* SpecUpload: requests posted to the upload route
\* ------------------------------------------------------------------------
\* requests a behaviour of SpecUpload posts
MaxUploads == 2

\* files posted to the route: of every allowed type, of a type that is not
\* allowed, at the size cap and over it
PostedFiles ==
  {File(<<"a", "pdf">>, "application/pdf", 100, TRUE, <<"h", "i">>, Undefined),
   File(<<"c", "pdf">>, "application/pdf", 100, FALSE, Undefined,
        <<"No ", "password", " given">>),
   File(<<"d", "txt">>, "text/plain", MaxUploadBytes, TRUE, <<"y", "o">>, Undefined),
   File(<<"e", "png">>, "image/png", 100, TRUE, <<"QUJD">>, Undefined),
   File(<<"g", "gif">>, "image/gif", 100, TRUE, <<"R0lG">>, Undefined),
   File(<<"h", "pdf">>, "application/pdf", MaxUploadBytes + 1, TRUE,
        <<"h", "i">>, Undefined),
   File(<<"i", "jpg">>, "image/jpeg", MaxUploadBytes + 1, TRUE, <<"QUJD">>,
        Undefined),
   File(<<"j", "doc">>, "application/msword", MaxUploadBytes + 1, TRUE,
        <<"h", "i">>, Undefined)}

InitUpload ==
  /\ MemInit(0)
  /\ CallIdle
  /\ files \in SeqsUpTo(PostedFiles, MaxUploads)
  /\ input = <<>>
  /\ responses = [i \in 1..Len(files) |-> NoResponse]
  /\ uploadsDir = {}
  /\ attachments = <<>>
  /\ phase = "posted"
  /\ message = <<>>
  /\ chat = NoChat

NextUpload == \E i \in 1..Len(files) : UploadPOST_handle(i)

SpecUpload == InitUpload /\ [][NextUpload]_vars

\* the route has answered the i-th request
Answered(i) == phase = "posted" /\ i \in 1..Len(files) /\ responses[i] # NoResponse

\* the declared type is not allowed or the size is over 10 MiB
OutsideLimits(f) ==
  \/ f.type \notin {"application/pdf", "text/plain", "image/png", "image/jpeg"}
  \/ f.size > 10 * 1024 * 1024

\* C12: an upload of a type that is not allowed or of more than 10 MiB is
\* rejected, and nothing is stored or extracted for it
C12_RejectedBeforeStorageOrExtraction ==
  \A i \in 1..Len(files) :
    (Answered(i) /\ OutsideLimits(files[i])) =>
      /\ responses[i].status = 400
      /\ responses[i].written = {}
      /\ \A k \in 1..Len(responses[i].steps) :
           responses[i].steps[k] \notin {"writeFile", "extract"}

\* a file over the size cap and a file of a type not allowed were both
\* rejected and the uploads directory is still empty
C12_Witness ==
  /\ Len(files) = 2
  /\ Answered(1) /\ Answered(2)
  /\ files[1].size > MaxUploadBytes /\ files[1].type = "application/pdf"
  /\ files[2].type = "image/gif"
  /\ responses[1].status = 400 /\ responses[2].status = 400
  /\ uploadsDir = {}

\* what the answer to an accepted upload carries
YieldsText(r) == r.status = 200 /\ r.extractedText # Undefined
YieldsInlineImage(r) == r.status = 200 /\ StartsWith(r.url, DataImage)
YieldsFailure(r) == r.status = 500

\* C13: an accepted upload yields exactly one of text, inline image data
\* and failure, and an accepted image yields inline image data
C13_ExactlyOneOutcome ==
  \A i \in 1..Len(files) :
    (Answered(i) /\ ~OutsideLimits(files[i])) =>
      LET r == responses[i]
      IN  /\ Cardinality({o \in {"text", "image", "failure"} :
                            \/ o = "text" /\ YieldsText(r)
                            \/ o = "image" /\ YieldsInlineImage(r)
                            \/ o = "failure" /\ YieldsFailure(r)}) = 1
          /\ IsImageType(files[i].type) => YieldsInlineImage(r)

\* ------------------------------------------------------------------------
\* SpecParse: the extractors of file-parser.ts called on a buffer
\* ------------------------------------------------------------------------
\* bytes of a buffer given to extractTextFromTextFile
MaxBytes == 3

\* a buffer: what it holds (bytes), and what reading it gives
Buffer(bytes, parseOk, text, msg) ==
  [bytes |-> bytes, parseOk |-> parseOk, text |-> text, message |-> msg]

\* buffers given to extractTextFromPDF: documents whose text the parser
\* reads (absent, empty, blank, with text), protected documents, and null
\* or garbage buffers with the errors the parser throws for them
PdfBuffers ==
  {Buffer("pdf", TRUE, t, Undefined) :
     t \in {Undefined, <<>>, <<" ">>, <<"\n", " ", "\t">>, <<"h", "i">>,
            <<" ", "h", "i", "\n">>, <<"h", " ", "i">>}}
  \cup {Buffer("protected", FALSE, Undefined, m) :
          m \in {<<"No ", "password", " given">>, <<"File is ", "encrypted">>,
                 <<"No ", "password", " for ", "encrypted", " file">>}}
  \cup {Buffer("garbage", FALSE, Undefined, m) :
          m \in {<<"Invalid PDF", " structure">>, <<"bad XRef entry">>, Undefined,
                 <<"Invalid PDF", ": ", "password", " entry">>,
                 <<"Invalid PDF", ": ", "encrypted", " trailer">>}}
  \cup {Buffer("null", FALSE, Undefined,
               <<"Cannot read properties of null (reading 'url')">>)}

\* buffers given to extractTextFromTextFile: bytes of UTF-8 text and the
\* byte 0xFF, which no UTF-8 sequence holds
TextBuffers ==
  {Buffer("text", TRUE, t, Undefined) :
     t \in SeqsUpTo({"h", "\n", "0xFF"}, MaxBytes)}

InitParse ==
  /\ MemInit(0)
  /\ TurnIdle
  /\ \/ fn = "extractTextFromPDF" /\ arg \in PdfBuffers
     \/ fn = "extractTextFromTextFile" /\ arg \in TextBuffers
  /\ ret = NoReturn
  /\ loop = NoLoop

NextParse ==
  \/ extractTextFromPDF_call
  \/ extractTextFromTextFile_call

SpecParse == InitParse /\ [][NextParse]_vars

Returned(f) == fn = f /\ ret.done

\* C14: for a null or garbage buffer extractTextFromPDF fails with the
\* corrupt-document error, and with no other error and no text
C14_GarbageIsCorruptDocument ==
  (Returned("extractTextFromPDF") /\ arg.bytes \in {"null", "garbage"}) =>
    ~ret.ok /\ ret.value = <<"Invalid or corrupted PDF file">>

\* the bytes are valid UTF-8
ValidUtf8(bytes) == \A i \in 1..Len(bytes) : bytes[i] # "0xFF"

\* C15: extractTextFromTextFile fails for a buffer that is not valid UTF-8
\* and returns a string only for one that is
C15_InvalidUtf8Fails ==
  Returned("extractTextFromTextFile") => (ret.ok <=> ValidUtf8(arg.text))

\* the parser read no text: absent, empty or white space only
NoText(t) ==
  t = Undefined \/ \A i \in 1..Len(t) : t[i] \in {" ", "\n", "\t"}

\* C17: when the parser succeeds without text extractTextFromPDF returns
\* the placeholder, and what it returns on success is never empty
C17_PlaceholderForNoText ==
  (Returned("extractTextFromPDF") /\ arg.parseOk) =>
    /\ ret.ok
    /\ NoText(arg.text) =>
         ret.value = <<"[This PDF appears to be empty or contains only images. No text could be extracted.]">>
    /\ ret.value # <<>> /\ ret.value # Undefined

\* the parser read white space only and the call returned the placeholder
C17_Witness ==
  /\ Returned("extractTextFromPDF")
  /\ arg.parseOk /\ arg.text = <<"\n", " ", "\t">>
  /\ ret.ok /\ ret.value = NoTextPlaceholder

\* the text the upload route extracts from the file
ExtractedOf(f) == ExtractByType(f).value

\* C16: a document whose extracted text is longer than the ceiling is
\* delivered to the model truncated, and ending with the truncation marker
C16_TruncationIsMarked ==
  (phase = "done" /\ chat.state = "submitted") =>
    \A i \in 1..Len(Attached(files)) :
      LET f == Attached(files)[i]
      IN  (~IsImageType(f.type) /\ Len(ExtractedOf(f)) > 2000) =>
            LET t == chat.providerParts[i].text
            IN  /\ Len(t) < Len(FileText(f.name, ExtractedOf(f)))
                /\ t[Len(t)] = "[... content truncated ...]"

\* ------------------------------------------------------------------------
\* SpecExtract: extractMemoriesFromConversation called after turns
\* ------------------------------------------------------------------------
\* calls a behaviour of SpecExtract makes, one after the other
MaxExtractCalls == 2

UserMessages ==
  {<<"m", "y", " ", "n", "a", "m", "e", " ", "i", "s", " ", "A", "l">>,
   <<"M", "y", " ", "n", "a", "m", "e", " ", "i", "s", " ", "A", "l", ".", " ", "I", " ", "p", "r", "e", "f", "e", "r", " ", "t", "e", "a">>,
   <<"I", " ", "w", "o", "r", "k", " ", "a", "s", " ", "a", " ", "v", "e", "t", "\n", "I", " ", "l", "i", "v", "e", " ", "i", "n", " ", "R", "o", "m", "e">>,
   <<"h", "e", "l", "l", "o">>}

AiResponses ==
  {<<"o", "k">>,
   <<"m", "y", " ", "n", "a", "m", "e", " ", "i", "s", " ", "B", "o", "t">>}

ExtractParams ==
  {[userId |-> "u1", chatId |-> "c1", userMessage |-> m, aiResponse |-> a] :
     m \in UserMessages, a \in AiResponses}

InitExtract == MemInit(MaxExtractCalls) /\ TurnIdle /\ CallIdle

NextExtract ==
  \/ \E params \in ExtractParams : extractMemoriesFromConversation_start(params)
  \/ extractMemoriesFromConversation_step
  \/ extractMemoriesFromConversation_return

SpecExtract == InitExtract /\ [][NextExtract]_vars

\* the patterns that match the user message, in the order of the list
Matching(params) ==
  SelectSeq(Patterns, LAMBDA pattern : RuleMatch(pattern, params) # Undefined)

\* the writes of a call that did not fail, in the order they were tried
Saved(l) ==
  LET ok == SelectSeq([i \in 1..Len(l.tried) |-> i],
                      LAMBDA i : \A k \in 1..Len(l.failed) : l.failed[k] # i)
  IN  [k \in 1..Len(ok) |-> l.tried[ok[k]]]

\* C18: when the write for one pattern fails, the writes for the other
\* matching patterns are still tried, the call completes normally and it
\* returns the records that were saved
C18_WriteFailureIsIsolated ==
  Returned("extractMemoriesFromConversation") =>
    /\ ret.ok
    /\ Len(loop.tried) = Len(Matching(arg))
    /\ \A i \in 1..Len(loop.tried) : loop.tried[i].key = Matching(arg)[i].key
    /\ Len(ret.value) = Len(Saved(loop))
    /\ \A i \in 1..Len(ret.value) :
         /\ ret.value[i].key = Saved(loop)[i].key
         /\ ret.value[i].value = Saved(loop)[i].value

\* the first of two writes failed, the second was made, and the call
\* returned the one record saved
C18_Witness ==
  /\ Returned("extractMemoriesFromConversation")
  /\ ret.ok
  /\ Len(loop.tried) = 2 /\ loop.failed = <<1>>
  /\ Len(ret.value) = 1
  /\ ret.value[1].key = "preference"
  /\ \E r \in store : r.key = "preference"
  /\ \A r \in store : r.key # "name"

\* key, category and value of the writes a call tries
WritesOf(params) ==
  [i \in 1..Len(Matching(params)) |->
     [key |-> Matching(params)[i].key,
      category |-> Matching(params)[i].category,
      value |-> RuleMatch(Matching(params)[i], params)]]

\* C19: the writes a call tried are those a call with the same userId,
\* chatId and user message tries for any other response of the model
C19_WritesIgnoreResponse ==
  Returned("extractMemoriesFromConversation") =>
    \A a \in AiResponses :
      WritesOf([arg EXCEPT !.aiResponse = a]) =
        [i \in 1..Len(loop.tried) |->
           [key |-> loop.tried[i].key, category |-> loop.tried[i].category,
            value |-> loop.tried[i].value]]

\* a call whose response holds a sentence the first pattern matches wrote
\* the name of the user message and nothing of the response
C19_Witness ==
  /\ Returned("extractMemoriesFromConversation")
  /\ arg.aiResponse = <<"m", "y", " ", "n", "a", "m", "e", " ", "i", "s", " ", "B", "o", "t">>
  /\ Len(loop.tried) = 2 /\ loop.failed = <<>>
  /\ loop.tried[1].key = "name" /\ loop.tried[1].value = <<"A", "l">>
  /\ \E r \in store : r.key = "name" /\ r.value = <<"A", "l">>

\* C20: the parts saved for a user turn are the parts as submitted; the two
\* conversions change only the copy sent to the model
C20_SavedPartsAreSubmittedParts ==
  chat.state = "submitted" => chat.saved = message

\* a document part the first conversion made a text part and an image part
\* the second conversion made an inline image were both saved as file parts
C20_Witness ==
  /\ chat.state = "submitted"
  /\ Len(message) = 2
  /\ message[1].type = "file" /\ Truthy(message[1].extractedText)
  /\ chat.processedMessageParts[1].type = "text"
  /\ message[2].type = "file" /\ chat.providerParts[2].type = "image"
  /\ chat.saved[1].type = "file"
  /\ chat.saved[1].extractedText = message[1].extractedText
  /\ chat.saved[2].type = "file" /\ chat.saved[2].url = message[2].url

\* ------------------------------------------------------------------------
\* SpecPrompt: a chat request of a user with or without stored memories
\* ------------------------------------------------------------------------
\* calls of saveMemory and memory loads a behaviour of SpecPrompt starts
MaxPromptCalls == 3

\* the bodies of the chat request
PromptMessages ==
  {<<TextPart(<<"w", "h", "y", "?">>)>>,
   <<FilePart("application/pdf", <<"a", "pdf">>,
              <<"/uploads/", "uuid-1", ".", "pdf">>, <<"h", "i">>),
     TextPart(<<"w", "h", "y", "?">>)>>}

InitPrompt ==
  /\ MemInit(MaxPromptCalls)
  /\ CallIdle
  /\ files = <<>>
  /\ input = <<>>
  /\ responses = <<>>
  /\ uploadsDir = {}
  /\ attachments = <<>>
  /\ phase = "sent"
  /\ message \in PromptMessages
  /\ chat = NoChat

NextPrompt ==
  \/ \E p \in Procs : \E c \in SaveLoadCalls : saveMemory_select(p, c)
  \/ \E p \in Procs : saveMemory_write(p)
  \/ \E p \in Procs : \E u \in {"u1", "u2"} :
       getMemoriesByUserId_select(p, MemoryLoad(u))
  \/ \E p \in Procs : getMemoriesByUserId_update(p)
  \/ \E p \in Procs : ChatPOST_withMemories(p)

SpecPrompt == InitPrompt /\ [][NextPrompt]_vars

MaxMemoryCalls == 4

\* two users writing the key "name"; one call with an importance above 10
\* and another category
MemorySaveCalls ==
  {SaveCall("u1", None, "personal", "name", "Alice", 7, None),
   SaveCall("u1", "c1", "fact", "name", "Bob", 11, "m1"),
   SaveCall("u2", None, "personal", "name", "Carol", 10, None)}

MemoryGetCalls == {GetCall(u, None, Absent, Absent) : u \in {"u1", "u2"}}

MemoryKeyCalls == {KeyCall(u, "name") : u \in {"u1", "u2"}}

MemoryDeleteCalls == {DeleteCall(1, u) : u \in {"u1", "u2"}}

MemoryDeleteAllCalls == {DeleteAllCall("u2")}

InitMemory == MemInit(MaxMemoryCalls) /\ TurnIdle /\ CallIdle

NextMemory ==
  \/ \E p \in Procs, c \in MemorySaveCalls : saveMemory_select(p, c)
  \/ \E p \in Procs : saveMemory_write(p)
  \/ \E p \in Procs, c \in MemoryGetCalls : getMemoriesByUserId_select(p, c)
  \/ \E p \in Procs : getMemoriesByUserId_update(p)
  \/ \E p \in Procs, c \in MemoryKeyCalls : getMemoryByKey_select(p, c)
  \/ \E p \in Procs : getMemoryByKey_update(p)
  \/ \E p \in Procs, c \in MemoryDeleteCalls : deleteMemory(p, c)
  \/ \E p \in Procs, c \in MemoryDeleteAllCalls : deleteAllMemories(p, c)

SpecMemory == InitMemory /\ [][NextMemory]_vars

\* C22: every stored record has an importance that is an integer between
\* 1 and 10
C22_ImportanceBetween1And10 ==
  \A r \in store :
    /\ CastInteger(r.importance) >= 1
    /\ CastInteger(r.importance) <= 10

\* ------------------------------------------------------------------------
\* the pipeline of a turn (SpecTurn)
\* ------------------------------------------------------------------------
\* where the pipeline of the turn is: the files are collected until the
\* first upload settles, extracted until submitForm assembles the parts,
\* and lowered and adapted by the chat route in one step (Adapting is the
\* second conversion inside that step), which submits or rejects
PipelineState ==
  IF phase = "uploading"
  THEN IF \A i \in 1..Len(files) : responses[i] = Pending
       THEN "Collecting" ELSE "Extracting"
  ELSE IF phase = "ready" THEN "Extracting"
  ELSE IF phase = "sent" THEN "Assembling"
  ELSE IF chat.state = "submitted" THEN "Submitted"
  ELSE "Rejected"

\* the place of a pipeline state in Collecting, Extracting, Assembling,
\* Adapting, Submitted | Rejected
PipelineRank(st) ==
  CASE st = "Collecting" -> 1
    [] st = "Extracting" -> 2
    [] st = "Assembling" -> 3
    [] st = "Adapting" -> 4
    [] OTHER -> 5

OutsideProviderKinds(part) ==
  /\ part.type # "text"
  /\ ~(part.type = "file" /\ part.data # Undefined
         /\ StartsWith(part.data, DataImage))

\* C24: a part of a kind outside text and inline image that reaches the
\* second conversion is replaced, in its position, by a text part; the turn
\* is submitted and its other parts are as the conversion makes them
C24_UnsupportedPartBecomesDiagnostic ==
  (phase = "done" /\ \A i \in 1..Len(message) : PartSchemaOk(message[i])) =>
    /\ chat.state = "submitted"
    /\ Len(chat.providerParts) = Len(chat.modelMessages)
    /\ \A i \in 1..Len(chat.modelMessages) :
         IF OutsideProviderKinds(chat.modelMessages[i])
         THEN chat.providerParts[i].type = "text"
         ELSE chat.providerParts[i] = Stage2(chat.modelMessages[i])

\* the part of the request is a PDF or plain-text attachment that carries
\* the text its extraction gave (which may be empty)
IsExtractedDocument(part) ==
  /\ part.type = "file"
  /\ part.mediaType \in {"application/pdf", "text/plain"}
  /\ part.extractedText # Undefined

\* C25: every PDF or plain-text attachment whose extraction succeeded, its
\* text empty or not, is handed on as one text part "[File: <name>]", a
\* blank line, the extracted text
C25_DocumentBecomesOneTextPart ==
  (phase = "done" /\ chat.state = "submitted") =>
    /\ Len(chat.providerParts) = Len(message)
    /\ \A i \in 1..Len(message) :
         IsExtractedDocument(message[i]) =>
           chat.providerParts[i] =
             [NoPart EXCEPT !.type = "text",
                            !.text = FileText(message[i].name,
                                              message[i].extractedText)]

\* ------------------------------------------------------------------------
\* extractTextFromPDF and the failures of the parser (SpecParse)
\* ------------------------------------------------------------------------
\* the message the parser threw holds the piece of text
Mentions(piece) == arg.message # Undefined /\ Includes(arg.message, piece)

\* C26: on a parser failure extractTextFromPDF fails, never returning text,
\* with one reason: corrupt if the message holds 'Invalid PDF'; otherwise
\* password-protected if it holds 'password'; otherwise encrypted if it
\* holds 'encrypted'; otherwise a generic failure with the parser's message
C26_OneReasonInOrder ==
  (Returned("extractTextFromPDF") /\ ~arg.parseOk) =>
    /\ ~ret.ok
    /\ ret.value =
         (CASE Mentions("Invalid PDF") -> <<"Invalid or corrupted PDF file">>
            [] ~Mentions("Invalid PDF") /\ Mentions("password") ->
                 <<"PDF is password-protected">>
            [] ~Mentions("Invalid PDF") /\ ~Mentions("password")
                 /\ Mentions("encrypted") -> <<"PDF is encrypted">>
            [] OTHER ->
                 IF Truthy(arg.message)
                 THEN <<"PDF parsing error: ">> \o arg.message
                 ELSE <<"Failed to extract text from PDF">>)

\* the parser's message held both 'password' and 'encrypted', and the call
\* failed as password-protected
C26_Witness ==
  /\ Returned("extractTextFromPDF")
  /\ Mentions("password") /\ Mentions("encrypted")
  /\ ~ret.ok
  /\ ret.value = <<"PDF is password-protected">>

\* ------------------------------------------------------------------------
\* the access count under concurrency (SpecMemory)
\* ------------------------------------------------------------------------
\* C27: once all calls have completed, the accessCount of every record has
\* grown, from the 1 of its insert, by the number of getMemoriesByUserId,
\* getMemoryByKey and update-path saveMemory calls that returned or updated
\* the record
C27_NoIncrementLost ==
  AllIdle =>
    \A r \in store : CastInteger(r.accessCount) = 1 + HitsOf(r.id)

\* a record was returned or updated by three calls, two of them in flight
\* at the same time, and all calls have completed
C27_Witness ==
  /\ AllIdle
  /\ \E r \in store : HitsOf(r.id) = 3 /\ r.accessCount = NumToText(4)
  /\ \A p \in Procs : solo[p] # "none"
  /\ \E p, q \in Procs : call[p].op = "key" /\ call[q].op \in {"get", "save"}

\* ------------------------------------------------------------------------
\* what saveMemory's update leaves alone (SpecSave)
\* ------------------------------------------------------------------------
\* the handler p completes the update path of saveMemory in this step
UpdatesExisting(p) ==
  pc[p] = "save_write" /\ pc'[p] = "idle" /\ Len(existing[p]) > 0

\* C28: saveMemory on an existing (userId, key) keeps the id, createdAt and
\* category of the record, also when the call passes another category, and
\* its userId and key; it adds 1 to accessCount, changes chatId only when
\* the call gives one, and leaves every other record as it was
C28_UpdateKeepsIdCreatedAtCategory ==
  [][\A p \in Procs :
       UpdatesExisting(p) =>
         /\ Cardinality(store') = Cardinality(store)
         /\ \A r \in store :
              IF r.id = existing[p][1].id
              THEN \E n \in store' :
                     /\ n.id = r.id
                     /\ n.createdAt = r.createdAt
                     /\ n.category = r.category
                     /\ n.userId = r.userId
                     /\ n.key = r.key
                     /\ n.value = call[p].value
                     /\ n.updatedAt = call[p].now
                     /\ n.lastAccessedAt = call[p].now
                     /\ CastInteger(n.accessCount) =
                          CastInteger(r.accessCount) + 1
                     /\ call[p].chatId = None => n.chatId = r.chatId
                     /\ call[p].chatId # None => n.chatId = call[p].chatId
              ELSE r \in store']_vars

\* a record saved as "personal" was last written by a call that passed the
\* category "fact", and is still "personal"
C28_Witness ==
  /\ AllIdle
  /\ \E w \in prov : \E r \in RowOf(w) :
       /\ w.writer.category = "fact"
       /\ r.category = "personal"
       /\ r.value = w.writer.value
       /\ CastInteger(r.accessCount) >= 2

\* ------------------------------------------------------------------------
\* isolation of the users (SpecMemory)
\* ------------------------------------------------------------------------
\* the records of the users other than u are the same before and after
OthersUntouched(u) ==
  {r \in store : r.userId # u} = {r \in store' : r.userId # u}

\* what the handlers hold of the table belongs to the user of their call
OwnRowsHeld ==
  \A p \in Procs :
    /\ (call[p].op \in {"get", "key"} =>
          \A i \in 1..Len(results[p]) : results[p][i].userId = call[p].userId)
    /\ (pc[p] = "save_write" =>
          \A i \in 1..Len(existing[p]) : existing[p][i].userId = call[p].userId)

\* C29: a memory operation called with userId u returns no record of
\* another user and leaves the records of the other users as they were;
\* deleteMemory(id, u) with the id of another user's record leaves the
\* store unchanged
C29_IsolatedPerUser ==
  [][/\ OwnRowsHeld'
     /\ \A p \in Procs :
          pc'[p] # pc[p] => OthersUntouched(call'[p].userId)
     /\ \A p \in Procs, c \in MemoryDeleteCalls :
          deleteMemory(p, c) =>
            /\ OthersUntouched(c.userId)
            /\ (\E r \in store : r.id = c.id /\ r.userId # c.userId)
                 => store' = store
     /\ \A p \in Procs, c \in MemoryDeleteAllCalls :
          deleteAllMemories(p, c) => OthersUntouched(c.userId)]_vars

\* one handler saved a record for u1 and then called deleteMemory with the
\* id of that record and the userId u2; the record is still stored
C29_Witness ==
  \E p \in Procs :
    /\ AllIdle
    /\ \A q \in Procs \ {p} : call[q] = NoCall
    /\ call[p] = DeleteCall(1, "u2")
    /\ \E r \in store : r.id = 1 /\ r.userId = "u1"

\* ------------------------------------------------------------------------
\* the upload store after an extraction error (SpecUpload)
\* ------------------------------------------------------------------------
\* C30: an upload request answered with an extraction error leaves no file
\* of that request under the uploads directory
C30_ExtractionErrorLeavesNoFile ==
  \A i \in 1..Len(files) :
    (Answered(i) /\ responses[i].status = 500) =>
      responses[i].written \cap uploadsDir = {}

====
